---- MODULE Spec2Model ----
(***************************************************************************)
(* The product-listing data hook useProducts (hooks/useProducts.ts) and    *)
(* its module-wide ProductsCache, as a state machine.                      *)
(*                                                                         *)
(* React's scheduling is modelled as follows: a handler (a user call, a    *)
(* timer callback, the continuation of an awaited network call) runs to    *)
(* completion; when it changed a dependency of the effects (state.loading  *)
(* or the searchParams object), the next step is Render, which runs the    *)
(* cleanups and the effects of the new commit before any other event is    *)
(* handled.  Callbacks handed out by a render close over that render's     *)
(* state.loading and searchParams.                                         *)
(***************************************************************************)
EXTENDS Integers, Sequences, FiniteSets, TLC

VARIABLES
    autoFetch,          \* config.autoFetch
    refreshInterval,    \* config.refreshInterval (0: absent)
    cacheTimeout,       \* config.cacheTimeout
    state,              \* ProductsState
    searchParams,       \* current search parameters: a sequence of <<field, value>>
    paramsDirty,        \* the searchParams object was replaced since the last commit
    rLoading,           \* state.loading as closed over by the callbacks of the last commit
    phase,              \* "first" (rendered, effects not yet run), "live", "unmounted"
    abortControllerRef, \* id of the request whose controller the ref holds, 0: null
    refreshIntervalRef, \* handle of setInterval, 0: null
    retryTimeoutRef,    \* handle of setTimeout, 0: null
    intervals,          \* armed repeating timers
    timeouts,           \* armed one-shot timers
    inflight,           \* network requests issued and not yet resolved
    nextId,             \* identity of the next request
    cache,              \* productsCache.cache: key -> [data, timestamp]
    now,                \* Date.now()
    ev,                 \* history: what the last step did
    lm,                 \* history: the last loadMore() the caller issued
    late,               \* number of aborted calls the transport completed all the same
    codec,              \* inputs and results of generateKey (SpecCodec)
    modal,              \* ScrapeModal: its state, its requests in flight (SpecScrape)
    boundary            \* ErrorBoundary: its state and timers (SpecBoundary)

vars == <<autoFetch, refreshInterval, cacheTimeout, state, searchParams,
          paramsDirty, rLoading, phase, abortControllerRef, refreshIntervalRef,
          retryTimeoutRef, intervals, timeouts, inflight, nextId, cache, now, ev,
          lm, late, codec, modal, boundary>>

-----------------------------------------------------------------------------
(* Bounds of the model *)

MaxRequests == 3
MaxTicks == 1
NumPages == 3
MaxLate == 1

(* Program constants *)

timeout == 5 * 60 * 1000
RetryDelay == 2000
PageRefreshInterval == 30000

-----------------------------------------------------------------------------
(* Values *)

Undefined == "undefined"
Null == "null"
NoError == "<null>"
NoTime == -1

NoPagination == [isNull |-> TRUE, current_page |-> 0, has_next_page |-> FALSE]

Queries == {"phone"}
Partials == { << <<"query", q>> >> : q \in Queries }
Outcomes == {"ok", "http", "appfail", "neterr", "abort"}

-----------------------------------------------------------------------------
(* Objects as insertion-ordered sequences of <<field, value>> *)

Fields(p) == {p[i][1] : i \in DOMAIN p}

IndexOf(p, f) == CHOOSE i \in DOMAIN p : p[i][1] = f

SetField(p, f, v) ==
    IF f \in Fields(p) THEN [p EXCEPT ![IndexOf(p, f)] = <<f, v>>]
    ELSE Append(p, <<f, v>>)

RECURSIVE Spread(_, _)
Spread(prev, new) ==
    IF new = <<>> THEN prev
    ELSE Spread(SetField(prev, Head(new)[1], Head(new)[2]), Tail(new))

IsDefined(e) == e[2] # Undefined
IsPresent(e) == e[2] # Undefined /\ e[2] # Null

\* JSON.stringify(params): own properties in insertion order, undefined dropped
generateKey(params) == SelectSeq(params, IsDefined)

\* the query string fetchProducts builds: undefined and null skipped
buildQuery(params) == SelectSeq(params, IsPresent)

\* the query string loadMore builds: every entry, String(v)
loadMoreQuery(params) == params

-----------------------------------------------------------------------------
(* The backend: GET /api/products?<query>, one product per page *)

Item(query, page) == [q |-> query, page |-> page]

PageItems(query, page) == << Item(query, page) >>

PagePagination(page) ==
    [isNull |-> FALSE, current_page |-> page, has_next_page |-> page < NumPages]

HttpErrorMessage == "HTTP error! status: 500"
AppErrorMessage == "Failed to fetch products"
TransportErrorMessage == "Failed to fetch"

ErrorMessage(o) ==
    CASE o = "http" -> HttpErrorMessage
      [] o = "appfail" -> AppErrorMessage
      [] OTHER -> TransportErrorMessage

-----------------------------------------------------------------------------
(* ProductsCache *)

EmptyCache == [k \in {} |-> [data |-> <<>>, timestamp |-> 0]]

NoAge == -1

\* age of the entry get would find, NoAge when there is none
EntryAge(c, params, t) ==
    IF generateKey(params) \in DOMAIN c
    THEN t - c[generateKey(params)].timestamp
    ELSE NoAge

\* get without the comparison of the entry's age against the timeout
getIgnoringAge(c, params, t) ==
    LET key == generateKey(params) IN
    IF key \notin DOMAIN c
    THEN [cache |-> c, hit |-> FALSE, data |-> <<>>]
    ELSE [cache |-> c, hit |-> TRUE, data |-> c[key].data]

get(c, params, t) ==
    LET key == generateKey(params) IN
    IF key \notin DOMAIN c
    THEN [cache |-> c, hit |-> FALSE, data |-> <<>>]
    ELSE IF t - c[key].timestamp > timeout
         THEN [cache |-> [k \in DOMAIN c \ {key} |-> c[k]], hit |-> FALSE, data |-> <<>>]
         ELSE [cache |-> c, hit |-> TRUE, data |-> c[key].data]

set(c, params, data, t) ==
    LET key == generateKey(params) IN
    [k \in DOMAIN c \cup {key} |->
        IF k = key THEN [data |-> data, timestamp |-> t] ELSE c[k]]

\* clear that removes nothing
clearNothing(c) == c

clear(c) == EmptyCache

-----------------------------------------------------------------------------
(* The hook's mutable world, threaded through the statements of a handler *)

W == [state |-> state,
      abortControllerRef |-> abortControllerRef,
      refreshIntervalRef |-> refreshIntervalRef,
      retryTimeoutRef |-> retryTimeoutRef,
      intervals |-> intervals,
      timeouts |-> timeouts,
      inflight |-> inflight,
      nextId |-> nextId,
      cache |-> cache,
      ev |-> ev]

Commit(w) ==
    /\ state' = w.state
    /\ abortControllerRef' = w.abortControllerRef
    /\ refreshIntervalRef' = w.refreshIntervalRef
    /\ retryTimeoutRef' = w.retryTimeoutRef
    /\ intervals' = w.intervals
    /\ timeouts' = w.timeouts
    /\ inflight' = w.inflight
    /\ nextId' = w.nextId
    /\ cache' = w.cache
    /\ ev' = w.ev

NoEv == [op |-> "init", fetchCalled |-> FALSE, key |-> <<>>, age |-> NoAge,
         got |-> FALSE, served |-> FALSE, issued |-> 0, req |-> 0,
         kind |-> "", outcome |-> "", aborted |-> FALSE,
         wroteState |-> FALSE, wroteCache |-> FALSE, armed |-> FALSE,
         cancelled |-> FALSE, reqParams |-> <<>>]

NoLm == [active |-> FALSE, ok |-> FALSE, id |-> 0, L |-> <<>>, page |-> 0]

NoCodec == [p1 |-> <<>>, p2 |-> <<>>, k1 |-> <<>>, k2 |-> <<>>, done |-> FALSE]

Begin(op) == [W EXCEPT !.ev = [NoEv EXCEPT !.op = op]]

\* setState: React drops an update of an unmounted component
setState(w, s) ==
    IF phase = "unmounted" THEN w
    ELSE [w EXCEPT !.state = s, !.ev.wroteState = TRUE]

\* the handle of a new timer: one that no armed timer has and that the ref
\* which is not being assigned (other) does not hold
NewHandle(w, other) ==
    LET used == {t.id : t \in w.intervals \cup w.timeouts} \cup {other}
    IN CHOOSE n \in 1..(Cardinality(used) + 1) :
           n \notin used /\ \A m \in 1..(n - 1) : m \in used

\* abortControllerRef.current.abort()
abort(w) ==
    [w EXCEPT !.inflight =
        {IF r.id = w.abortControllerRef THEN [r EXCEPT !.aborted = TRUE] ELSE r
            : r \in w.inflight}]

\* handleError that records the message and leaves loading as it is
handleErrorKeepLoading(w, message, hasRetry, params, cl) ==
    LET w1 == setState(w, [w.state EXCEPT !.error = message])
        h == NewHandle(w1, w1.refreshIntervalRef)
    IN IF hasRetry /\ w1.retryTimeoutRef = 0
       THEN [w1 EXCEPT !.retryTimeoutRef = h,
                       !.timeouts = @ \cup {[id |-> h, params |-> params, cl |-> cl]},
                       !.ev.armed = TRUE]
       ELSE w1

\* handleError(error, retryFn): hasRetry tells whether retryFn was passed;
\* params and cl are what the retry closure () => fetchProducts(params) holds
handleError(w, message, hasRetry, params, cl) ==
    LET w1 == setState(w, [w.state EXCEPT !.error = message, !.loading = FALSE])
        h == NewHandle(w1, w1.refreshIntervalRef)
    IN IF hasRetry /\ w1.retryTimeoutRef = 0
       THEN [w1 EXCEPT !.retryTimeoutRef = h,
                       !.timeouts = @ \cup {[id |-> h, params |-> params, cl |-> cl]},
                       !.ev.armed = TRUE]
       ELSE w1

\* fetchProducts that publishes a cache hit whatever state.loading is
fetchProductsServeWhileLoading(w, params, cl) ==
    LET w1 == abort(w)
        g == get(w1.cache, params, now)
        w2 == [w1 EXCEPT !.cache = g.cache,
                         !.ev.cancelled = (w1.inflight # w.inflight),
                         !.ev.fetchCalled = TRUE,
                         !.ev.key = generateKey(params),
                         !.ev.age = EntryAge(w1.cache, params, now),
                         !.ev.got = g.hit]
        id == w2.nextId
    IN IF g.hit
       THEN [setState(w2, [w2.state EXCEPT !.products = g.data,
                                            !.error = NoError,
                                            !.lastFetchTime = now])
                EXCEPT !.ev.served = TRUE]
       ELSE [setState(w2, [w2.state EXCEPT !.loading = TRUE, !.error = NoError])
                EXCEPT !.abortControllerRef = id,
                       !.nextId = id + 1,
                       !.inflight = @ \cup {[id |-> id, kind |-> "fetch",
                                             params |-> params,
                                             query |-> buildQuery(params),
                                             page |-> 1, aborted |-> FALSE,
                                             cl |-> cl]},
                       !.ev.issued = @ + 1]

\* fetchProducts(params), up to its await; cl is the state.loading its closure holds
fetchProducts(w, params, cl) ==
    LET w1 == abort(w)
        g == get(w1.cache, params, now)
        w2 == [w1 EXCEPT !.cache = g.cache,
                         !.ev.cancelled = (w1.inflight # w.inflight),
                         !.ev.fetchCalled = TRUE,
                         !.ev.key = generateKey(params),
                         !.ev.age = EntryAge(w1.cache, params, now),
                         !.ev.got = g.hit]
        id == w2.nextId
    IN IF g.hit /\ ~cl
       THEN [setState(w2, [w2.state EXCEPT !.products = g.data,
                                            !.error = NoError,
                                            !.lastFetchTime = now])
                EXCEPT !.ev.served = TRUE]
       ELSE [setState(w2, [w2.state EXCEPT !.loading = TRUE, !.error = NoError])
                EXCEPT !.abortControllerRef = id,
                       !.nextId = id + 1,
                       !.inflight = @ \cup {[id |-> id, kind |-> "fetch",
                                             params |-> params,
                                             query |-> buildQuery(params),
                                             page |-> 1, aborted |-> FALSE,
                                             cl |-> cl]},
                       !.ev.issued = @ + 1]

\* the continuation of fetchProducts with no test for AbortError in its catch
fetchProductsResumeAbortFails(w, r, o) ==
    IF o = "ok"
    THEN LET products == PageItems(r.query, r.page)
             w1 == [w EXCEPT !.cache = set(w.cache, r.params, products, now),
                             !.ev.wroteCache = TRUE]
         IN setState(w1, [w1.state EXCEPT !.products = products,
                                          !.pagination = PagePagination(r.page),
                                          !.loading = FALSE,
                                          !.error = NoError,
                                          !.lastFetchTime = now])
    ELSE handleError(w, ErrorMessage(o), TRUE, r.params, r.cl)

\* the continuation of fetchProducts with no write to the cache
fetchProductsResumeNoCache(w, r, o) ==
    IF o = "abort"
    THEN w
    ELSE IF o = "ok"
         THEN setState(w, [w.state EXCEPT !.products = PageItems(r.query, r.page),
                                          !.pagination = PagePagination(r.page),
                                          !.loading = FALSE,
                                          !.error = NoError,
                                          !.lastFetchTime = now])
         ELSE handleError(w, ErrorMessage(o), TRUE, r.params, r.cl)

\* the continuation of fetchProducts after its await, for outcome o of request r
fetchProductsResume(w, r, o) ==
    IF o = "abort"
    THEN w
    ELSE IF o = "ok"
         THEN LET products == PageItems(r.query, r.page)
                  w1 == [w EXCEPT !.cache = set(w.cache, r.params, products, now),
                                  !.ev.wroteCache = TRUE]
              IN setState(w1, [w1.state EXCEPT !.products = products,
                                               !.pagination = PagePagination(r.page),
                                               !.loading = FALSE,
                                               !.error = NoError,
                                               !.lastFetchTime = now])
         ELSE handleError(w, ErrorMessage(o), TRUE, r.params, r.cl)

\* loadMore() without the state.loading half of its guard
loadMoreWhileLoading(w) ==
    IF ~w.state.pagination.has_next_page
    THEN w
    ELSE LET id == w.nextId IN
         [setState(w, [w.state EXCEPT !.loading = TRUE])
            EXCEPT !.nextId = id + 1,
                   !.inflight = @ \cup {[id |-> id, kind |-> "more",
                                         params |-> searchParams,
                                         query |-> loadMoreQuery(searchParams),
                                         page |-> w.state.pagination.current_page + 1,
                                         aborted |-> FALSE, cl |-> rLoading]},
                   !.ev.issued = @ + 1]

\* loadMore(), up to its await
loadMore(w) ==
    IF ~w.state.pagination.has_next_page \/ w.state.loading
    THEN w
    ELSE LET id == w.nextId IN
         [setState(w, [w.state EXCEPT !.loading = TRUE])
            EXCEPT !.nextId = id + 1,
                   !.inflight = @ \cup {[id |-> id, kind |-> "more",
                                         params |-> searchParams,
                                         query |-> loadMoreQuery(searchParams),
                                         page |-> w.state.pagination.current_page + 1,
                                         aborted |-> FALSE, cl |-> rLoading]},
                   !.ev.issued = @ + 1]

\* the continuation of loadMore after its await
loadMoreResume(w, r, o) ==
    CASE o = "ok" ->
            setState(w, [w.state EXCEPT !.products = @ \o PageItems(r.query, r.page),
                                        !.pagination = PagePagination(r.page),
                                        !.loading = FALSE,
                                        !.error = NoError])
      [] o = "appfail" -> w
      [] OTHER -> handleError(w, ErrorMessage(o), FALSE, r.params, r.cl)

-----------------------------------------------------------------------------
(* Effects *)

\* the dependencies of the auto-refresh and initial-fetch effects changed
\* (refetch and fetchProducts are re-created when state.loading or
\* searchParams change), or the effects have not run yet
EffectsPending ==
    \/ phase = "first"
    \/ phase = "live" /\ (paramsDirty \/ state.loading # rLoading)

\* cleanup of the auto-refresh effect; it exists when the effect armed a timer
cleanupRefresh(w) ==
    IF refreshInterval > 0 /\ w.refreshIntervalRef # 0
    THEN [w EXCEPT !.intervals = {t \in @ : t.id # w.refreshIntervalRef}]
    ELSE w

\* cleanup of the initial-fetch effect, and of the unmount effect
cleanupFetch(w) ==
    LET w1 == IF w.abortControllerRef # 0 THEN abort(w) ELSE w
        w2 == IF w1.refreshIntervalRef # 0
              THEN [w1 EXCEPT !.intervals = {t \in @ : t.id # w1.refreshIntervalRef}]
              ELSE w1
    IN IF w2.retryTimeoutRef # 0
       THEN [w2 EXCEPT !.timeouts = {t \in @ : t.id # w2.retryTimeoutRef}]
       ELSE w2

\* the auto-refresh effect without the assignment to refreshIntervalRef
setupRefreshNoRef(w) ==
    IF refreshInterval > 0
    THEN LET h == NewHandle(w, w.retryTimeoutRef) IN
         [w EXCEPT !.intervals = @ \cup {[id |-> h, params |-> searchParams,
                                          cl |-> state.loading]}]
    ELSE w

\* the auto-refresh effect
setupRefresh(w) ==
    IF refreshInterval > 0
    THEN LET h == NewHandle(w, w.retryTimeoutRef) IN
         [w EXCEPT !.refreshIntervalRef = h,
                   !.intervals = @ \cup {[id |-> h, params |-> searchParams,
                                          cl |-> state.loading]}]
    ELSE w

\* the initial-fetch effect
setupFetch(w) ==
    IF autoFetch THEN fetchProducts(w, searchParams, state.loading) ELSE w

\* abort() settles the pending call at once: its continuation runs before any
\* later event, with AbortError, or with the response when that had already
\* arrived (a transport that does not cancel)
Rejected == {r \in inflight : r.aborted}

Idle == ~EffectsPending /\ Rejected = {}

Live == phase = "live" /\ Idle

WithinBounds(w) == w.nextId <= MaxRequests + 1

\* clock steps taken so far (the clock advances by timeout or timeout + 1)
Ticks(t) == t \div timeout

-----------------------------------------------------------------------------
(* ScrapeModal (components/ScrapeModal.tsx) *)

MaxScrapes == 2

\* strings as sequences of tokens: " ", a scheme name, ":", "//", host text "a"
Space == " "
SpecialSchemes == {"http", "https", "ftp"}
Words == SpecialSchemes \cup {"a"}

\* what the user may have typed: "", " ", "http://a", " https://a ", "ftp://a",
\* "a", "http://", "a:a", "http:a"
UrlInputs ==
    {<<>>,
     <<Space>>,
     <<"http", ":", "//", "a">>,
     <<Space, "https", ":", "//", "a", Space>>,
     <<"ftp", ":", "//", "a">>,
     <<"a">>,
     <<"http", ":", "//">>,
     <<"a", ":", "a">>,
     <<"http", ":", "a">>}

RECURSIVE trimStart(_)
trimStart(s) == IF s # <<>> /\ Head(s) = Space THEN trimStart(Tail(s)) ELSE s

RECURSIVE trimEnd(_)
trimEnd(s) ==
    IF s # <<>> /\ s[Len(s)] = Space THEN trimEnd(SubSeq(s, 1, Len(s) - 1)) ELSE s

\* String.prototype.trim
trim(s) == trimEnd(trimStart(s))

\* new URL(urlString): it throws (ok FALSE) without a scheme followed by ":",
\* and for a special scheme without a host; the slashes are optional
parseURL(s) ==
    IF Len(s) >= 2 /\ s[1] \in Words /\ s[2] = ":"
    THEN LET rest == SubSeq(s, 3, Len(s))
             host == IF rest # <<>> /\ Head(rest) = "//" THEN Tail(rest) ELSE rest
         IN IF s[1] \in SpecialSchemes
            THEN [ok |-> host = <<"a">>, protocol |-> s[1]]
            ELSE [ok |-> \A i \in DOMAIN rest : rest[i] # Space, protocol |-> s[1]]
    ELSE [ok |-> FALSE, protocol |-> ""]

isValidUrl(urlString) ==
    /\ parseURL(urlString).ok
    /\ parseURL(urlString).protocol \in {"http", "https"}

EmptyUrlMessage == "Please enter a URL"
InvalidUrlMessage == "Please enter a valid URL (must start with http:// or https://)"
ScrapedMessage == "scraped"
ScrapeFailedMessage == "Failed to scrape the URL"
ScrapeThrownMessage == "Failed to scrape URL"
ScrapeOutcomes == {"ok", "appfail", "throw"}

NoModal == [isOpen |-> FALSE, url |-> <<>>, loading |-> FALSE, error |-> NoError,
            success |-> NoError, pending |-> {}, nextReq |-> 1, onSuccess |-> 0,
            op |-> "init"]

resetState(m) ==
    [m EXCEPT !.url = <<>>, !.error = NoError, !.success = NoError, !.loading = FALSE]

handleClose(m) == [resetState(m) EXCEPT !.isOpen = FALSE, !.op = "close"]

handleUrlChange(m, value) ==
    [m EXCEPT !.url = value, !.error = NoError, !.success = NoError, !.op = "change"]

\* handleSubmit that dispatches every non-empty input
handleSubmitUnvalidated(m) ==
    IF trim(m.url) = <<>>
    THEN [m EXCEPT !.error = EmptyUrlMessage, !.op = "submit"]
    ELSE [m EXCEPT !.loading = TRUE, !.error = NoError, !.success = NoError,
                   !.pending = @ \cup {[id |-> m.nextReq, url |-> trim(m.url)]},
                   !.nextReq = @ + 1, !.op = "submit"]

\* handleSubmit, up to its await
handleSubmit(m) ==
    IF trim(m.url) = <<>>
    THEN [m EXCEPT !.error = EmptyUrlMessage, !.op = "submit"]
    ELSE IF ~isValidUrl(trim(m.url))
         THEN [m EXCEPT !.error = InvalidUrlMessage, !.op = "submit"]
         ELSE [m EXCEPT !.loading = TRUE, !.error = NoError, !.success = NoError,
                        !.pending = @ \cup {[id |-> m.nextReq, url |-> trim(m.url)]},
                        !.nextReq = @ + 1, !.op = "submit"]

\* the continuation of handleSubmit after its await
handleSubmitResume(m, r, o) ==
    LET m1 == CASE o = "ok" -> [m EXCEPT !.success = ScrapedMessage, !.url = <<>>,
                                         !.onSuccess = @ + 1]
                [] o = "appfail" -> [m EXCEPT !.error = ScrapeFailedMessage]
                [] OTHER -> [m EXCEPT !.error = ScrapeThrownMessage]
    IN [m1 EXCEPT !.loading = FALSE, !.pending = @ \ {r}, !.op = "resolve"]

-----------------------------------------------------------------------------
(* ErrorBoundary (components/ErrorBoundary.tsx) *)

MaxErrors == 3

\* const { maxRetries = 3 } = this.props
DefaultMaxRetries == 3

\* timers: the reset timeouts that are armed; resets: how often a timeout armed
\* by handleRetry has reset an error since the last change of resetKeys;
\* errors: how many errors the children have thrown
NoBoundary == [hasError |-> FALSE, retryCount |-> 0, maxRetries |-> DefaultMaxRetries,
               resetTimeoutId |-> 0, timers |-> {}, nextTimer |-> 1,
               mounted |-> TRUE, resets |-> 0, errors |-> 0, op |-> "init"]

getDerivedStateFromError(b) ==
    [b EXCEPT !.hasError = TRUE, !.errors = @ + 1, !.op = "error"]

\* setState of a component that may have been unmounted
boundarySetState(b, s) == IF b.mounted THEN s ELSE b

resetErrorBoundary(b) ==
    boundarySetState(b, [b EXCEPT !.hasError = FALSE, !.retryCount = 0])

handleRetry(b) ==
    IF b.retryCount >= b.maxRetries
    THEN [b EXCEPT !.op = "retryRefused"]
    ELSE [boundarySetState(b, [b EXCEPT !.retryCount = @ + 1])
             EXCEPT !.resetTimeoutId = b.nextTimer,
                    !.timers = @ \cup {b.nextTimer},
                    !.nextTimer = @ + 1,
                    !.op = "retry"]

componentWillUnmount(b) ==
    [b EXCEPT !.timers = @ \ {b.resetTimeoutId}, !.mounted = FALSE, !.op = "unmount"]

-----------------------------------------------------------------------------
(* Actions *)

\* the hook after its first render, before its effects have run
InitHook ==
    /\ autoFetch \in BOOLEAN
    /\ refreshInterval \in {0, PageRefreshInterval}
    /\ state = [products |-> <<>>, loading |-> autoFetch, error |-> NoError,
                pagination |-> NoPagination, lastFetchTime |-> NoTime]
    /\ searchParams = <<>>
    /\ paramsDirty = FALSE
    /\ rLoading = autoFetch
    /\ phase = "first"
    /\ abortControllerRef = 0
    /\ refreshIntervalRef = 0
    /\ retryTimeoutRef = 0
    /\ intervals = {}
    /\ timeouts = {}
    /\ inflight = {}
    /\ nextId = 1
    /\ cache = EmptyCache
    /\ now = 0
    /\ ev = NoEv
    /\ lm = NoLm
    /\ late = 0

Init ==
    /\ InitHook
    /\ cacheTimeout = timeout
    /\ codec = NoCodec
    /\ modal = NoModal
    /\ boundary = NoBoundary

\* React commits a render: cleanups of the previous commit's effects, then the effects
Render ==
    /\ EffectsPending
    /\ LET w0 == Begin("render")
           w1 == IF phase = "first" THEN w0 ELSE cleanupFetch(cleanupRefresh(w0))
           w2 == setupFetch(setupRefresh(w1))
       IN WithinBounds(w2) /\ Commit(w2)
    /\ rLoading' = state.loading
    /\ paramsDirty' = FALSE
    /\ phase' = "live"
    /\ UNCHANGED lm
    /\ UNCHANGED <<autoFetch, refreshInterval, cacheTimeout, codec, modal, boundary, late,
                   searchParams, now>>

\* the caller invokes refetch()
Refetch ==
    /\ Live
    /\ LET w == fetchProducts(Begin("refetch"), searchParams, rLoading)
       IN WithinBounds(w) /\ Commit(w)
    /\ lm' = NoLm
    /\ UNCHANGED <<autoFetch, refreshInterval, cacheTimeout, codec, modal,
                   boundary, late, searchParams,
                   paramsDirty, rLoading, phase, now>>

\* the caller invokes loadMore()
LoadMore ==
    /\ Live
    /\ LET w == loadMore(Begin("loadMore"))
       IN WithinBounds(w) /\ Commit(w)
    /\ lm' = IF loadMore(Begin("loadMore")).nextId # nextId
             THEN [active |-> TRUE, ok |-> FALSE, id |-> nextId,
                   L |-> state.products,
                   page |-> state.pagination.current_page + 1]
             ELSE lm
    /\ UNCHANGED <<autoFetch, refreshInterval, cacheTimeout, codec, modal,
                   boundary, late, searchParams,
                   paramsDirty, rLoading, phase, now>>

\* the caller invokes updateSearchParams(newParams)
UpdateSearchParams(newParams) ==
    /\ Live
    /\ searchParams' = Spread(searchParams, newParams)
    /\ paramsDirty' = TRUE
    /\ Commit(Begin("updateSearchParams"))
    /\ lm' = NoLm
    /\ UNCHANGED <<autoFetch, refreshInterval, cacheTimeout, codec, modal, boundary, late,
                   rLoading, phase, now>>

\* the caller invokes clearCache()
ClearCache ==
    /\ Live
    /\ Commit([Begin("clearCache") EXCEPT !.cache = clear(cache)])
    /\ lm' = NoLm
    /\ UNCHANGED <<autoFetch, refreshInterval, cacheTimeout, codec, modal,
                   boundary, late, searchParams,
                   paramsDirty, rLoading, phase, now>>

\* the network call of request r settles with outcome o; completes: the call
\* was aborted and the transport completed it all the same
Resolve(r, o, completes) ==
    /\ ~EffectsPending
    /\ Rejected # {} => r \in Rejected
    /\ o = "abort" <=> (r.aborted /\ ~completes)
    /\ completes => (r.aborted /\ late < MaxLate)
    /\ late' = IF completes THEN late + 1 ELSE late
    /\ LET w0 == [Begin("resolve") EXCEPT
                      !.inflight = @ \ {r},
                      !.ev.req = r.id, !.ev.kind = r.kind,
                      !.ev.reqParams = r.params,
                      !.ev.outcome = o, !.ev.aborted = r.aborted]
           w1 == IF r.kind = "fetch" THEN fetchProductsResume(w0, r, o)
                 ELSE loadMoreResume(w0, r, o)
       IN Commit(w1)
    /\ lm' = IF lm.active /\ r.id = lm.id
             THEN (IF o = "ok" THEN [lm EXCEPT !.ok = TRUE] ELSE NoLm)
             ELSE lm
    /\ UNCHANGED <<autoFetch, refreshInterval, cacheTimeout, codec, modal,
                   boundary, searchParams,
                   paramsDirty, rLoading, phase, now>>

\* the repeating timer t fires: refetch()
RefreshTick(t) ==
    /\ Idle
    /\ LET w == fetchProducts(Begin("refetch"), t.params, t.cl)
       IN WithinBounds(w) /\ Commit(w)
    /\ UNCHANGED lm
    /\ UNCHANGED <<autoFetch, refreshInterval, cacheTimeout, codec, modal,
                   boundary, late, searchParams,
                   paramsDirty, rLoading, phase, now>>

\* the retry timer t fires: clears the ref, then fetchProducts(params)
RetryFire(t) ==
    /\ Idle
    /\ LET w0 == [Begin("retryFire") EXCEPT !.timeouts = @ \ {t},
                                            !.retryTimeoutRef = 0]
           w == fetchProducts(w0, t.params, t.cl)
       IN WithinBounds(w) /\ Commit(w)
    /\ UNCHANGED lm
    /\ UNCHANGED <<autoFetch, refreshInterval, cacheTimeout, codec, modal,
                   boundary, late, searchParams,
                   paramsDirty, rLoading, phase, now>>

\* the component unmounts: every effect's cleanup runs
Unmount ==
    /\ Live
    /\ phase' = "unmounted"
    /\ Commit(cleanupFetch(cleanupFetch(cleanupRefresh(Begin("unmount")))))
    /\ lm' = NoLm
    /\ UNCHANGED <<autoFetch, refreshInterval, cacheTimeout, codec, modal,
                   boundary, late, searchParams,
                   paramsDirty, rLoading, now>>

\* time passes
Tick(d) ==
    /\ Idle
    /\ Ticks(now) < MaxTicks
    /\ now' = now + d
    /\ Commit(Begin("tick"))
    /\ UNCHANGED lm
    /\ UNCHANGED <<autoFetch, refreshInterval, cacheTimeout, codec, modal,
                   boundary, late, searchParams,
                   paramsDirty, rLoading, phase>>

Next ==
    \/ Render
    \/ Refetch
    \/ LoadMore
    \/ \E newParams \in Partials : UpdateSearchParams(newParams)
    \/ ClearCache
    \/ \E r \in inflight : \E o \in Outcomes : \E completes \in BOOLEAN :
            Resolve(r, o, completes)
    \/ \E t \in intervals : RefreshTick(t)
    \/ \E t \in timeouts : RetryFire(t)
    \/ Unmount
    \/ \E d \in {timeout, timeout + 1} : Tick(d)

Spec == Init /\ [][Next]_vars

\* the hook of a caller that passes a cacheTimeout in its configuration
CacheTimeouts == {timeout + timeout}

InitConfig ==
    /\ InitHook
    /\ cacheTimeout \in CacheTimeouts
    /\ codec = NoCodec
    /\ modal = NoModal
    /\ boundary = NoBoundary

SpecConfig == InitConfig /\ [][Next]_vars

-----------------------------------------------------------------------------
(* generateKey as a function of two parameter objects *)

CodecFields == {"query", "per_page"}
CodecValues == {"phone", Undefined, Null}

\* objects of at most two distinct fields, in either insertion order
ParamObjects ==
    {<<>>}
    \cup {<< <<f, v>> >> : f \in CodecFields, v \in CodecValues}
    \cup {<< <<f, v>>, <<g, u>> >> :
            <<f, v, g, u>> \in {x \in CodecFields \X CodecValues \X CodecFields \X CodecValues :
                                    x[1] # x[3]}}

\* the fields that carry a value, whatever their order
Effective(p) == {p[i] : i \in {j \in DOMAIN p : p[j][2] \notin {Undefined, Null}}}

InitCodec ==
    /\ InitHook
    /\ autoFetch = FALSE
    /\ refreshInterval = 0
    /\ codec \in {[NoCodec EXCEPT !.p1 = a, !.p2 = b] : a \in ParamObjects, b \in ParamObjects}
    /\ cacheTimeout = timeout
    /\ modal = NoModal
    /\ boundary = NoBoundary

\* productsCache computes the keys of both objects
Encode ==
    /\ ~codec.done
    /\ codec' = [codec EXCEPT !.k1 = generateKey(codec.p1),
                              !.k2 = generateKey(codec.p2),
                              !.done = TRUE]
    /\ UNCHANGED <<autoFetch, refreshInterval, cacheTimeout, state, searchParams,
                   paramsDirty,
                   rLoading, phase, abortControllerRef, refreshIntervalRef,
                   retryTimeoutRef, intervals, timeouts, inflight, nextId, cache,
                   now, ev, lm, late, modal, boundary>>

NextCodec == Encode

SpecCodec == InitCodec /\ [][NextCodec]_vars

-----------------------------------------------------------------------------
(* ScrapeModal as a state machine *)

hookVars == <<autoFetch, refreshInterval, cacheTimeout, state, searchParams, paramsDirty,
              rLoading, phase, abortControllerRef, refreshIntervalRef,
              retryTimeoutRef, intervals, timeouts, inflight, nextId, cache,
              now, ev, lm, late>>

InitScrape ==
    /\ InitHook
    /\ autoFetch = FALSE
    /\ refreshInterval = 0
    /\ codec = NoCodec
    /\ cacheTimeout = timeout
    /\ modal = NoModal
    /\ boundary = NoBoundary

\* the page opens the modal
OpenModal ==
    /\ ~modal.isOpen
    /\ modal' = [modal EXCEPT !.isOpen = TRUE, !.op = "open"]
    /\ UNCHANGED <<hookVars, codec, boundary>>

\* the user closes the modal (close button, backdrop, Escape)
CloseModal ==
    /\ modal.isOpen
    /\ modal' = handleClose(modal)
    /\ UNCHANGED <<hookVars, codec, boundary>>

\* the user edits the input, which is disabled while loading
ChangeUrl(value) ==
    /\ modal.isOpen
    /\ ~modal.loading
    /\ modal' = handleUrlChange(modal, value)
    /\ UNCHANGED <<hookVars, codec, boundary>>

\* the form is submitted
Submit ==
    /\ modal.isOpen
    /\ handleSubmit(modal).nextReq <= MaxScrapes + 1
    /\ modal' = handleSubmit(modal)
    /\ UNCHANGED <<hookVars, codec, boundary>>

\* productService.scrapeUrl settles
ScrapeResolve(r, o) ==
    /\ modal' = handleSubmitResume(modal, r, o)
    /\ UNCHANGED <<hookVars, codec, boundary>>

NextScrape ==
    \/ OpenModal
    \/ CloseModal
    \/ \E value \in UrlInputs : ChangeUrl(value)
    \/ Submit
    \/ \E r \in modal.pending : \E o \in ScrapeOutcomes : ScrapeResolve(r, o)

SpecScrape == InitScrape /\ [][NextScrape]_vars

-----------------------------------------------------------------------------
(* ErrorBoundary as a state machine *)

InitBoundary ==
    /\ InitHook
    /\ autoFetch = FALSE
    /\ refreshInterval = 0
    /\ cacheTimeout = timeout
    /\ codec = NoCodec
    /\ modal = NoModal
    /\ boundary \in {[NoBoundary EXCEPT !.maxRetries = n] : n \in 1..DefaultMaxRetries}

\* a child throws while rendering
ChildThrows ==
    /\ boundary.mounted
    /\ ~boundary.hasError
    /\ boundary.errors < MaxErrors
    /\ boundary' = getDerivedStateFromError(boundary)
    /\ UNCHANGED <<hookVars, codec, modal>>

\* the user presses the retry button of the fallback UI
Retry ==
    /\ boundary.mounted
    /\ boundary.hasError
    /\ boundary' = handleRetry(boundary)
    /\ UNCHANGED <<hookVars, codec, modal>>

\* a reset timeout armed by handleRetry fires
ResetFire(t) ==
    /\ boundary' = [resetErrorBoundary(boundary) EXCEPT
                        !.timers = @ \ {t},
                        !.resets = IF boundary.hasError /\ boundary.mounted
                                   THEN @ + 1 ELSE @,
                        !.op = "reset"]
    /\ UNCHANGED <<hookVars, codec, modal>>

\* componentDidUpdate after resetKeys changed, with resetOnPropsChange
ResetKeysChange ==
    /\ boundary.mounted
    /\ boundary.hasError
    /\ boundary' = [resetErrorBoundary(boundary) EXCEPT !.resets = 0,
                                                        !.op = "resetKeys"]
    /\ UNCHANGED <<hookVars, codec, modal>>

UnmountBoundary ==
    /\ boundary.mounted
    /\ boundary' = componentWillUnmount(boundary)
    /\ UNCHANGED <<hookVars, codec, modal>>

NextBoundary ==
    \/ ChildThrows
    \/ Retry
    \/ \E t \in boundary.timers : ResetFire(t)
    \/ ResetKeysChange
    \/ UnmountBoundary

SpecBoundary == InitBoundary /\ [][NextBoundary]_vars

-----------------------------------------------------------------------------
(* Properties *)

Outstanding == {r \in inflight : ~r.aborted}

Settled == Idle /\ inflight = {}

\* C1: the response of a fetch that a later fetch superseded is never applied
\* to items and pagination: a successful response that is applied is that of
\* the most recently issued fetch.
C1_LatestFetchWins ==
    (ev.op = "resolve" /\ ev.kind = "fetch" /\ ev.outcome = "ok" /\ ev.wroteState)
        => ev.req = abortControllerRef

\* C2: the continuation of a request whose controller was aborted writes
\* neither SyncState nor the cache, whatever the transport delivers.
C2_CancelledNeverWrites ==
    (ev.op = "resolve" /\ ev.aborted) => (~ev.wroteState /\ ~ev.wroteCache)

\* C3: at most one uncancelled network request is outstanding, primary
\* fetches and load-more requests counted together.
C3_AtMostOneInFlight == Cardinality(Outstanding) <= 1

\* C4: once the effects and rejected continuations have run, loading is true
\* exactly when a request is outstanding.
C4_LoadingIffOutstanding ==
    (Idle /\ phase = "live") => (state.loading <=> Outstanding # {})

\* C5: a lookup of an entry older than the TTL returns nothing, removes the
\* entry and is followed by a network call; a lookup of an entry not older
\* than the TTL returns the entry's items.
C5_NeverServeExpired ==
    ev.fetchCalled =>
        /\ ev.age > timeout => (~ev.got /\ ev.key \notin DOMAIN cache /\ ev.issued = 1)
        /\ (ev.age # NoAge /\ ev.age <= timeout) => (ev.got /\ ev.key \in DOMAIN cache)
        /\ ev.served => (ev.got /\ ev.age <= timeout)
        /\ (ev.served /\ phase = "live") => state.products = cache[ev.key].data

C5_Witness ==
    ev.fetchCalled /\ ev.age = timeout + 1 /\ ~ev.got /\ ev.issued = 1

\* C6: a fetch invoked while the cache holds a live entry for its parameters
\* issues no network call and publishes the cached items.
C6_LiveEntryNoNetwork ==
    (ev.fetchCalled /\ ev.age # NoAge /\ ev.age <= timeout)
        => (ev.issued = 0 /\ ev.served)

\* C7: parameter objects with the same effective fields have the same key.
C7_KeyCanonical ==
    (codec.done /\ Effective(codec.p1) = Effective(codec.p2)) => codec.k1 = codec.k2

\* C8: loadMore() invoked with no pagination, with has_next_page false or
\* with loading true issues no request and leaves SyncState as it was.
C8_LoadMoreNoop ==
    [][(ev'.op = "loadMore"
          /\ (state.pagination.isNull \/ ~state.pagination.has_next_page \/ state.loading))
        => (state' = state /\ inflight' = inflight /\ nextId' = nextId)]_vars

C8_Witness ==
    /\ ev.op = "loadMore"
    /\ ev.issued = 0
    /\ ~state.pagination.isNull
    /\ ~state.pagination.has_next_page
    /\ ~state.loading

\* C9: after a loadMore() issued with items L resolved successfully with items
\* M, and without a later call by the caller, the settled engine holds L
\* followed by M and the pagination of the response (stated for the runs in
\* which the transport cancelled every aborted call).
C9_LoadMoreSettles ==
    (lm.active /\ lm.ok /\ Settled /\ phase = "live" /\ late = 0)
        => /\ state.products = lm.L \o PageItems(loadMoreQuery(searchParams), lm.page)
           /\ state.pagination = PagePagination(lm.page)

\* the items are exactly pages 1..k of query, in order
IsPages(items, query, k) ==
    /\ Len(items) = k
    /\ \A i \in 1..k : items[i] = Item(query, i)

\* C10: a load-more request asks for current_page + 1, and with the
\* parameters never changed the response of page k+1 is appended only to
\* pages 1..k.
C10_NoPageSkipped ==
    /\ (ev.op = "loadMore" /\ ev.issued = 1)
          => \E r \in inflight : /\ r.id = nextId - 1
                                 /\ r.kind = "more"
                                 /\ r.page = state.pagination.current_page + 1
    /\ (ev.op = "resolve" /\ ev.kind = "more" /\ ev.outcome = "ok" /\ ev.wroteState
            /\ searchParams = <<>>)
          => IsPages(state.products, <<>>, state.pagination.current_page)

GenuineFailures == {"http", "appfail", "neterr"}

\* C11: a load-more request that fails (transport failure, non-2xx status or
\* success = false) records its message in error, sets loading to false,
\* leaves items and pagination as they were and arms no retry.
C11_LoadMoreFailure ==
    [][(ev'.op = "resolve" /\ ev'.kind = "more" /\ ev'.outcome \in GenuineFailures
          /\ phase = "live")
        => (/\ state'.error = ErrorMessage(ev'.outcome)
            /\ ~state'.loading
            /\ state'.products = state.products
            /\ state'.pagination = state.pagination
            /\ timeouts' = timeouts
            /\ retryTimeoutRef' = retryTimeoutRef)]_vars

\* C12: at most one retry timer is armed; after a genuine failure of an
\* uncancelled fetch exactly one is armed (the failure armed one when none was
\* pending, and none when one was), and retryTimeoutRef holds it.
C12_OneRetryTimer ==
    /\ Cardinality(timeouts) <= 1
    /\ (ev.op = "resolve" /\ ev.kind = "fetch" /\ ev.outcome \in GenuineFailures
            /\ ~ev.aborted)
          => /\ Cardinality(timeouts) = 1
             /\ \A t \in timeouts : t.id = retryTimeoutRef

\* C13: a retry armed by a genuine failure stays armed until it fires, unless
\* the caller changes the parameters or unmounts; when it fires it clears
\* retryTimeoutRef and calls fetchProducts with the parameters of the failed call.
C13_RetryFires ==
    [][\A t \in timeouts :
          (phase = "live" /\ ~paramsDirty
              /\ ev'.op \notin {"unmount", "updateSearchParams"})
            => \/ t \in timeouts'
               \/ /\ ev'.op = "retryFire"
                  /\ ev'.fetchCalled
                  /\ ev'.key = generateKey(t.params)
                  /\ retryTimeoutRef' = 0]_vars

\* C14: a fetch that ends with AbortError is no failure: its continuation
\* changes nothing in state, writes nothing to the cache and arms no retry.
C14_AbortIsNoFailure ==
    [][(ev'.op = "resolve" /\ ev'.kind = "fetch" /\ ev'.outcome = "abort")
        => (/\ state' = state
            /\ cache' = cache
            /\ timeouts' = timeouts
            /\ retryTimeoutRef' = retryTimeoutRef
            /\ ~ev'.wroteState /\ ~ev'.wroteCache /\ ~ev'.armed)]_vars

C14_Witness ==
    /\ ev.op = "resolve" /\ ev.kind = "fetch" /\ ev.outcome = "abort"
    /\ phase = "live"
    /\ state.loading

\* C15: a primary fetch that fails genuinely records the message of its
\* failure in error, sets loading to false and leaves items, pagination and
\* the cache as they were.
C15_FetchFailureAbsorbed ==
    [][(ev'.op = "resolve" /\ ev'.kind = "fetch" /\ ev'.outcome \in GenuineFailures
          /\ phase = "live")
        => (/\ state'.error = ErrorMessage(ev'.outcome)
            /\ ~state'.loading
            /\ state'.products = state.products
            /\ state'.pagination = state.pagination
            /\ cache' = cache)]_vars

C15_Witness ==
    /\ ev.op = "resolve" /\ ev.kind = "fetch" /\ ev.outcome = "http"
    /\ phase = "live"
    /\ state.error = HttpErrorMessage
    /\ ~state.loading
    /\ state.products # <<>>

\* C16: an uncancelled fetch that receives a successful response replaces
\* items and pagination by those of the response, stores the items in the
\* cache under the key of its params, sets loading to false, clears the error
\* and records the time.
C16_FetchSuccess ==
    [][\A r \in inflight :
          (ev'.op = "resolve" /\ ev'.req = r.id /\ r.kind = "fetch"
              /\ ev'.outcome = "ok" /\ ~r.aborted /\ phase = "live")
            => (/\ state' = [products |-> PageItems(buildQuery(r.params), 1),
                             pagination |-> PagePagination(1),
                             loading |-> FALSE,
                             error |-> NoError,
                             lastFetchTime |-> now]
                /\ generateKey(r.params) \in DOMAIN cache'
                /\ cache'[generateKey(r.params)] =
                       [data |-> state'.products, timestamp |-> now]
                /\ \A k \in DOMAIN cache' \ {generateKey(r.params)} :
                       k \in DOMAIN cache /\ cache'[k] = cache[k])]_vars

C16_Witness ==
    /\ ev.op = "resolve" /\ ev.kind = "fetch" /\ ev.outcome = "ok" /\ ~ev.aborted
    /\ phase = "live"
    /\ searchParams # <<>>
    /\ generateKey(searchParams) \in DOMAIN cache
    /\ state.products = cache[generateKey(searchParams)].data
    /\ state.error = NoError /\ ~state.loading

\* C17: updateSearchParams keeps every field it is not given, changes neither
\* state, requests nor cache, and the commit of the new parameters neither
\* issues a network call nor publishes cached items.
C17_UpdateDoesNotFetch ==
    [][/\ ev'.op = "updateSearchParams"
            => /\ Fields(searchParams) \subseteq Fields(searchParams')
               /\ state' = state /\ inflight' = inflight /\ cache' = cache
       /\ (ev'.op = "render" /\ paramsDirty)
            => /\ ~ev'.fetchCalled
               /\ ev'.issued = 0 /\ ~ev'.served
               /\ state' = state]_vars

\* C18: clearCache() empties the cache and changes neither state nor requests;
\* a fetch made while the cache is empty issues a network call.
C18_ClearCache ==
    [][/\ ev'.op = "clearCache"
            => /\ cache' = EmptyCache
               /\ state' = state /\ inflight' = inflight /\ nextId' = nextId
       /\ (cache = EmptyCache /\ ev'.fetchCalled)
            => (~ev'.got /\ ~ev'.served /\ ev'.issued = 1)]_vars

C18_Witness ==
    /\ ev.op = "refetch" /\ ev.fetchCalled /\ ev.age = NoAge /\ ev.issued = 1
    /\ state.lastFetchTime # NoTime
    /\ searchParams = <<>>
    /\ cache = EmptyCache
    /\ now = 0

\* C19: once the component is unmounted, no step changes state or the cache,
\* however the requests issued before resolve.
C19_NoMutationAfterTeardown ==
    [][phase = "unmounted" => (state' = state /\ cache' = cache)]_vars

\* C20: the unmount cleanup leaves no request outstanding and no timer armed,
\* running it again changes nothing more, and no timer is armed or fires
\* while the component is unmounted (stated for the runs in which the
\* transport cancelled every aborted call).
C20_TeardownCancelsAll ==
    /\ cleanupFetch(cleanupFetch(W)) = cleanupFetch(W)
    /\ (phase = "unmounted" /\ late = 0)
          => /\ Outstanding = {}
             /\ timeouts = {}
             /\ intervals = {}
             /\ ev.op \notin {"retryFire", "refetch"}

\* C21: at most one repeating refresh timer is armed, refreshIntervalRef
\* holds it, and none is armed when refreshInterval is absent.
C21_OneRefreshTimer ==
    /\ Cardinality(intervals) <= 1
    /\ \A t \in intervals : t.id = refreshIntervalRef
    /\ refreshInterval = 0 => intervals = {}

C21_Witness ==
    /\ ev.op = "render"
    /\ Cardinality(intervals) = 1
    /\ state.lastFetchTime # NoTime
    /\ paramsDirty = FALSE /\ searchParams # <<>>

\* C22: a submit dispatches the request exactly for a non-empty trimmed input
\* that is a URL of scheme http or https, and sends the trimmed input; any
\* other submit records a validation error, issues no request, leaves loading
\* false and does not call onSuccess.
C22_ScrapeValidation ==
    [][modal'.op = "submit" /\ modal' # modal =>
        LET u == trim(modal.url)
            posted == modal'.nextReq # modal.nextReq
        IN /\ posted <=> (u # <<>> /\ isValidUrl(u))
           /\ posted => /\ Len(u) >= 2 /\ u[1] \in {"http", "https"} /\ u[2] = ":"
                        /\ [id |-> modal.nextReq, url |-> u] \in modal'.pending
           /\ ~posted => /\ modal'.error \in {EmptyUrlMessage, InvalidUrlMessage}
                         /\ modal'.pending = modal.pending
                         /\ ~modal'.loading
                         /\ modal'.onSuccess = modal.onSuccess]_vars

C22_Witness ==
    /\ modal.op = "submit"
    /\ trim(modal.url) = <<"ftp", ":", "//", "a">>
    /\ modal.error = InvalidUrlMessage
    /\ modal.onSuccess = 1
    /\ modal.pending = {}
    /\ ~modal.loading

C24_BackoffRespected ==
    [][(/\ ev.op = "resolve" /\ ev.kind = "fetch" /\ ~ev.aborted
        /\ ev.outcome \in GenuineFailures /\ ev.armed
        /\ phase = "live" /\ ~paramsDirty /\ late = 0
        /\ ev'.op \notin {"retryFire", "refetch", "refreshTick", "loadMore",
                          "updateSearchParams"})
        => ev'.issued = 0]_vars

\* C25: once an effect cleanup has run (on a render or on unmount) no retry
\* timer is armed and retryTimeoutRef marks none as pending, and a genuine
\* failure of a fetch issued afterwards arms a retry timer.
C25_CancelLeavesNonePending ==
    /\ ev.op \in {"render", "unmount"} => (timeouts = {} /\ retryTimeoutRef = 0)
    /\ (/\ ev.op = "resolve" /\ ev.kind = "fetch" /\ ~ev.aborted
        /\ ev.outcome \in GenuineFailures /\ phase = "live" /\ late = 0)
          => ev.armed

\* C26: a request that was not cancelled applies its result to the state only
\* if it was issued for the current parameters: no request issued before a
\* parameter change, primary fetch or load-more, writes the state afterwards.
C26_NoRequestSurvivesParamChange ==
    (ev.op = "resolve" /\ ~ev.aborted /\ ev.wroteState)
        => ev.reqParams = searchParams

\* C27: a lookup by a hook configured with cache TTL cacheTimeout returns
\* nothing for an entry older than cacheTimeout and returns the entry when it
\* is younger than cacheTimeout.
C27_ConfiguredTtl ==
    (ev.fetchCalled /\ ev.age # NoAge) =>
        /\ ev.age > cacheTimeout => ~ev.got
        /\ ev.age < cacheTimeout => ev.got

\* C28: every cache entry holds the first page of the query of its key, the
\* cache is written only by the continuation of a successful primary fetch
\* that was not cancelled, and loadMore and its continuation neither look up
\* nor write the cache.
C28_CacheHoldsPrimaryResults ==
    /\ \A k \in DOMAIN cache : cache[k].data = PageItems(buildQuery(k), 1)
    /\ ev.wroteCache =>
          (ev.op = "resolve" /\ ev.kind = "fetch" /\ ev.outcome = "ok" /\ ~ev.aborted)
    /\ (ev.op = "loadMore" \/ ev.kind = "more") =>
          (~ev.fetchCalled /\ ~ev.got /\ ~ev.wroteCache)

\* C29: when the hook is settled with no request in flight and the parameters
\* were never changed, items are the concatenation of pages 1..k for
\* k = pagination.current_page.
C29_PaginationDescribesItems ==
    (/\ Live /\ inflight = {} /\ ~state.loading /\ late = 0
     /\ searchParams = <<>> /\ ~state.pagination.isNull)
        => IsPages(state.products, <<>>, state.pagination.current_page)

\* C30: retryCount never exceeds maxRetries, and handleRetry grants a retry
\* only while its timeouts have reset the boundary fewer than maxRetries
\* times since the last change of resetKeys.
C30_AtMostMaxRetries ==
    /\ boundary.retryCount <= boundary.maxRetries
    /\ boundary.op = "retry" => boundary.resets < boundary.maxRetries

====
